---------------------------- MODULE Spec2Model ----------------------------
(***************************************************************************)
(* Toy Special Number Field Sieve (snfs.c): relation collection, the      *)
(* incremental GF(2) matrix engine, the congruence-of-squares extractor    *)
(* and the bounded Pollard-rho fallback, as one state machine that follows *)
(* main -> snfs_factor -> (pollard_rho_u128) -> exit.                      *)
(*                                                                         *)
(* The program's widths and capacities are far beyond explicit-state       *)
(* checking (2^128 values, 6000 columns, 12000 rows), so they are scaled   *)
(* down and keep the orderings the code relies on:                         *)
(*     EXP_CAP  >  U128_BITS          (250 > 128: a non-zero value never   *)
(*                                     saturates an exponent counter)      *)
(*     LP_BOUND <  2^U128_BITS        (1e8 < 2^128: cofactors can be too   *)
(*                                     large for the large-prime rule)     *)
(*     MAX_REL  >  MAX_FB + OVERSHOOT (12000 > 6016)                       *)
(*     OVERSHOOT < WORD_BITS          (16 < 64)                            *)
(* All u128 arithmetic wraps modulo 2^U128_BITS exactly as in the code.    *)
(* Bit rows (arrays of 64-bit words) are sets of bit indices; a row of     *)
(* `words` words holds the indices below WORD_BITS * words.                *)
(***************************************************************************)
EXTENDS Integers, Sequences, FiniteSets, TLC

\* ---- program constants (scaled where noted) ----
U128_BITS == 6          \* typedef unsigned __int128 u128   (128, scaled)
WORD_BITS == 2          \* uint64_t words of the bit rows   (64, scaled)
MAX_FB == 3             \* #define MAX_FB 6000              (scaled)
LP_BOUND == 31          \* #define LP_BOUND 100000000       (scaled)
MAX_REL == 6            \* #define MAX_REL 12000            (scaled)
EXP_CAP == 250          \* if (exp_out[i] < 250)
OVERSHOOT == 2          \* target_rel = fb_size + 16        (scaled)
RHO_ATTEMPTS == 5       \* for (attempt = 0; attempt < 5; ...)
RHO_ITERS == 6          \* for (i = 0; i < 200000; i++)     (scaled)
MIN_DEGREE == 3         \* if (degree < 3 || degree > 12)

\* ---- bounds of the explored inputs ----
MaxDegree == 4          \* degree in MIN_DEGREE..MaxDegree
MaxB == 7               \* fb_bound in 1..MaxB
MaxK == 4               \* window in 0..MaxK

TwoW == 2 ^ U128_BITS
U128 == 0 .. (TwoW - 1)

\* ======================= small helpers =======================

RECURSIVE gcd_u128(_, _)
gcd_u128(a, b) == IF b = 0 THEN a ELSE gcd_u128(b, a % b)

\* the while (b) loop of mul_mod: every u128 operation wraps
RECURSIVE mul_mod_loop(_, _, _, _)
mul_mod_loop(res, a, b, mod) ==
    IF b = 0 THEN res % mod
    ELSE LET s    == (res + a) % TwoW
             res1 == IF b % 2 = 1
                     THEN (IF s >= mod THEN s - mod ELSE s)
                     ELSE res
             t    == (a * 2) % TwoW
             a1   == IF t >= mod THEN t - mod ELSE t
         IN  mul_mod_loop(res1, a1, b \div 2, mod)

mul_mod(a, b, mod) == mul_mod_loop(0, a % mod, b, mod)

RECURSIVE pow_mod_loop(_, _, _, _)
pow_mod_loop(result, base, exp, mod) ==
    IF exp = 0 THEN result
    ELSE pow_mod_loop(IF exp % 2 = 1 THEN mul_mod(result, base, mod) ELSE result,
                      mul_mod(base, base, mod), exp \div 2, mod)

pow_mod(base, exp, mod) == pow_mod_loop(1, base % mod, exp, mod)

RECURSIVE pow_u128(_, _)
pow_u128(base, exp) ==
    IF exp <= 0 THEN 1 ELSE (pow_u128(base, exp - 1) * base) % TwoW

\* binary search of int_root; pow_u128 wraps, so the test p == 0 || p > n
\* can accept a mid whose true power exceeds n
RECURSIVE int_root_loop(_, _, _, _, _)
int_root_loop(low, high, ans, nn, d) ==
    IF low > high THEN ans
    ELSE LET mid == low + ((high - low) \div 2)
             p   == pow_u128(mid, d)
         IN  IF p = 0 \/ p > nn
             THEN int_root_loop(low, mid - 1, ans, nn, d)
             ELSE int_root_loop((mid + 1) % TwoW, high, mid, nn, d)

int_root(nn, d) == int_root_loop(1, nn, 1, nn, d)

\* ======================= prime generation =======================

\* the crossing-out loop: for (p = 2; p * p <= limit; p++)
RECURSIVE sieve_loop(_, _, _)
sieve_loop(p, is_prime, limit) ==
    IF p * p > limit THEN is_prime
    ELSE sieve_loop(p + 1,
                    IF p \in is_prime
                    THEN is_prime \ {j \in (p * p) .. limit : j % p = 0}
                    ELSE is_prime,
                    limit)

\* the collecting loop: for (i = 2; i <= limit && count < MAX_FB; i++)
RECURSIVE collect_primes(_, _, _, _)
collect_primes(i, out, is_prime, limit) ==
    IF i > limit \/ Len(out) >= MAX_FB THEN out
    ELSE collect_primes(i + 1,
                        IF i \in is_prime THEN Append(out, i) ELSE out,
                        is_prime, limit)

generate_primes(limit) ==
    collect_primes(2, << >>, sieve_loop(2, 2 .. limit, limit), limit)

is_prime_u64(x) ==
    IF x < 2 THEN FALSE
    ELSE IF x % 2 = 0 THEN x = 2
    ELSE \A i \in 3 .. x : (i % 2 = 1 /\ i * i <= x) => x % i # 0


\* ======================= bit matrix helpers =======================

\* the bit indices held by the first `words` words of a row
WordBits(words) == 0 .. (WORD_BITS * words - 1)

SymDiff(A, B) == (A \ B) \cup (B \ A)

first_set_bit(row, words) ==
    LET inside == row \cap WordBits(words)
    IN  IF inside = {} THEN -1
        ELSE CHOOSE c \in inside : \A e \in inside : c <= e

\* mutant of xor_rows: dst[i] |= src[i]
xor_rows_or(dst, src, words) ==
    (dst \cap WordBits(words)) \cup (src \cap WordBits(words))
        \cup (dst \ WordBits(words))

\* dst[i] ^= src[i] for i < words; the words of dst beyond stay as they are
xor_rows(dst, src, words) ==
    SymDiff(dst \cap WordBits(words), src \cap WordBits(words))
        \cup (dst \ WordBits(words))

row_is_zero(row, words) == row \cap WordBits(words) = {}

\* memcpy(dst, src, words * sizeof(uint64_t))
copy_words(dst, src, words) ==
    (src \cap WordBits(words)) \cup (dst \ WordBits(words))

\* combination rows have combo_words = (MAX_REL + 63) / 64 words: all of
\* relation-index space 0 .. MAX_REL-1
RelIdx == 0 .. (MAX_REL - 1)
FbIdx == 0 .. (MAX_FB - 1)

\* mutant of reduce_loop: the row is stored without being reduced
reduce_loop_skip(r, row, combo, M, col_words) == [row |-> row, combo |-> combo]

\* the reduction loop of insert_row: for (r = 0; r < matrix_rows; r++)
RECURSIVE reduce_loop(_, _, _, _, _)
reduce_loop(r, row, combo, M, col_words) ==
    IF r >= M.matrix_rows THEN [row |-> row, combo |-> combo]
    ELSE IF M.pivot_col[r] \in row
         THEN reduce_loop(r + 1,
                          xor_rows(row, M.row_bits[r], col_words),
                          SymDiff(combo, M.combo_bits[r]),
                          M, col_words)
         ELSE reduce_loop(r + 1, row, combo, M, col_words)

\* insert_row on the matrix M = [row_bits, combo_bits, pivot_col, matrix_rows]:
\* the return value (dep), the mask written to out_dep (written only when
\* dep = 1; the caller's dep_mask is left alone otherwise), the reduced row,
\* and the matrix afterwards
insert_row(row, combo, col_words, M) ==
    LET red == reduce_loop(0, row, combo, M, col_words)
        pc0 == first_set_bit(red.row, col_words)
    IN  IF row_is_zero(red.row, col_words)
        THEN [dep |-> 1, out_dep |-> red.combo, reduced |-> red.row, M |-> M]
        ELSE IF pc0 < 0
        THEN [dep |-> 0, out_dep |-> {}, reduced |-> red.row, M |-> M]
        ELSE [dep |-> 0, out_dep |-> {}, reduced |-> red.row,
              M |-> [row_bits    |-> [M.row_bits EXCEPT ![M.matrix_rows] =
                                        copy_words(@, red.row, col_words)],
                     combo_bits  |-> [M.combo_bits EXCEPT ![M.matrix_rows] = red.combo],
                     pivot_col   |-> [M.pivot_col EXCEPT ![M.matrix_rows] = pc0],
                     matrix_rows |-> M.matrix_rows + 1]]

\* ======================= congruence extractor =======================

\* total_r[j] / total_a[j]: sums over the relations i < relation_count whose
\* bit is set in dep_mask
RECURSIVE total_exp(_, _, _, _, _)
total_exp(side, j, i, dep_mask, rels) ==
    IF i <= 0 THEN 0
    ELSE total_exp(side, j, i - 1, dep_mask, rels)
         + (IF (i - 1) \in dep_mask THEN rels[i - 1][side][j] ELSE 0)

\* x (side r_exp) or y (side a_exp): product over j < fb_size of
\* primes[j]^(total[j] / 2) mod n
RECURSIVE half_product(_, _, _, _, _, _)
half_product(side, j, dep_mask, rels, rel_count, ctx) ==
    IF j <= 0 THEN 1
    ELSE LET prev == half_product(side, j - 1, dep_mask, rels, rel_count, ctx)
             tot  == total_exp(side, j - 1, rel_count, dep_mask, rels)
         IN  IF tot # 0
             THEN mul_mod(prev, pow_mod(ctx.primes[j], tot \div 2, ctx.n), ctx.n)
             ELSE prev

\* mutant of extract_gcd: the tests g < n are missing
extract_gcd_no_upper(xx, yy, nn) ==
    LET diff == IF xx > yy THEN xx - yy ELSE yy - xx
        g1   == gcd_u128(diff, nn)
        s0   == (xx + yy) % TwoW
        sum  == IF s0 >= nn THEN s0 - nn ELSE s0
        g2   == gcd_u128(sum, nn)
    IN  IF g1 > 1 THEN g1
        ELSE IF g2 > 1 THEN g2
        ELSE 0

\* mutant of extract_gcd: the second test, on x + y, is missing
extract_gcd_diff_only(xx, yy, nn) ==
    LET diff == IF xx > yy THEN xx - yy ELSE yy - xx
        g1   == gcd_u128(diff, nn)
    IN  IF g1 > 1 /\ g1 < nn THEN g1 ELSE 0

\* the two gcd tests on x and y
extract_gcd(xx, yy, nn) ==
    LET diff == IF xx > yy THEN xx - yy ELSE yy - xx
        g1   == gcd_u128(diff, nn)
        s0   == (xx + yy) % TwoW
        sum  == IF s0 >= nn THEN s0 - nn ELSE s0
        g2   == gcd_u128(sum, nn)
    IN  IF g1 > 1 /\ g1 < nn THEN g1
        ELSE IF g2 > 1 /\ g2 < nn THEN g2
        ELSE 0

attempt_dependency(dep_mask, rels, rel_count, primes_, n_) ==
    LET ctx == [primes |-> primes_, n |-> n_]
        xx  == half_product("r_exp", Len(primes_), dep_mask, rels, rel_count, ctx)
        yy  == half_product("a_exp", Len(primes_), dep_mask, rels, rel_count, ctx)
    IN  [x |-> xx, y |-> yy, ret |-> extract_gcd(xx, yy, n_)]


\* ======================= state =======================

VARIABLES
    \* main's locals
    n, degree, fb_bound, window, p,
    \* control: "main", "loop", "trial", "sieved", "insert", "returned",
    \* "fallback", "rho", "done", "crashed"
    pc,
    \* snfs_factor's locals
    primes, col_words, m, target_rel, k, dep_mask, factor,
    \* the candidate under trial division: rel.a_exp, the running value and
    \* the factor-base index of factor_with_fb
    a_exp, value, i,
    \* int_root's locals (its ans is kept in m)
    low, high,
    \* process-wide statics
    relations, relation_count, row_bits, combo_bits, pivot_col, matrix_rows,
    \* pollard_rho_u128's locals
    c, attempt, iter, x, y,
    \* history: the rows handed to insert_row in this attempt (unreduced), the
    \* outcome of the last insert_row call, the last extractor call, whether
    \* main called the fallback, and what snfs_factor returned
    inserted, last_insert, ext, fallback_called, snfs_ret,
    \* history for repeated invocations: number of the run, and the arguments
    \* and outcome of the earlier run
    run, prev

vars == << n, degree, fb_bound, window, p, pc, primes, col_words, m,
           target_rel, k, dep_mask, factor, a_exp, value, i, low, high,
           relations, relation_count, row_bits, combo_bits, pivot_col, matrix_rows,
           c, attempt, iter, x, y, inserted, last_insert, ext,
           fallback_called, snfs_ret, run, prev >>

mainVars  == << n, degree, fb_bound, window >>
rhoVars   == << c, attempt, iter, x, y >>
matVars   == << row_bits, combo_bits, pivot_col, matrix_rows >>
trialVars == << a_exp, value, i >>
rootVars  == << low, high >>
histVars  == << run, prev >>

fb_size == Len(primes)

ZeroExp == [j \in FbIdx |-> 0]
ZeroRelation == [a_offset |-> 0, r_exp |-> ZeroExp, a_exp |-> ZeroExp]
NoExt == [called |-> FALSE, x |-> 0, y |-> 0, ret |-> 0, mask |-> {}, count |-> 0]
NoPrev == [valid |-> FALSE]

Matrix == [row_bits |-> row_bits, combo_bits |-> combo_bits,
           pivot_col |-> pivot_col, matrix_rows |-> matrix_rows]

\* the state of a fresh process about to call snfs_factor: statics are zero
Init ==
    /\ n \in 2 .. (TwoW - 1)
    /\ degree \in MIN_DEGREE .. MaxDegree
    /\ fb_bound \in 1 .. MaxB
    /\ window \in 0 .. MaxK
    /\ p = 0
    /\ pc = "main"
    /\ primes = << >> /\ col_words = 0 /\ m = 0 /\ target_rel = 0 /\ k = 0
    /\ dep_mask = {} /\ factor = 0
    /\ a_exp = ZeroExp /\ value = 0 /\ i = 0
    /\ low = 0 /\ high = 0
    /\ relations = [r \in RelIdx |-> ZeroRelation]
    /\ relation_count = 0
    /\ row_bits = [r \in RelIdx |-> {}]
    /\ combo_bits = [r \in RelIdx |-> {}]
    /\ pivot_col = [r \in RelIdx |-> 0]
    /\ matrix_rows = 0
    /\ c = 0 /\ attempt = 0 /\ iter = 0 /\ x = 0 /\ y = 0
    /\ inserted = << >> /\ last_insert = "none" /\ ext = NoExt
    /\ fallback_called = FALSE /\ snfs_ret = -1
    /\ run = 1 /\ prev = NoPrev

\* ======================= snfs_factor =======================

\* entry of snfs_factor up to the first loop test
SnfsEntry ==
    /\ pc = "main"
    /\ LET fb == generate_primes(fb_bound)
       IN  IF Len(fb) = 0
           THEN /\ pc' = "returned" /\ snfs_ret' = 0
                /\ UNCHANGED << primes, col_words, m, target_rel, k,
                                relation_count, matrix_rows >>
           ELSE /\ primes' = fb
                /\ relation_count' = 0
                /\ matrix_rows' = 0
                /\ col_words' = (Len(fb) + WORD_BITS - 1) \div WORD_BITS
                /\ m' = int_root(IF n > 1 THEN n - 1 ELSE n, degree)
                /\ target_rel' = Len(fb) + OVERSHOOT
                /\ k' = 1
                /\ pc' = "loop"
                /\ UNCHANGED snfs_ret
    /\ inserted' = << >> /\ last_insert' = "none" /\ ext' = NoExt
    /\ UNCHANGED << mainVars, rootVars, p, dep_mask, factor, trialVars, relations,
                    row_bits, combo_bits, pivot_col, rhoVars,
                    fallback_called, histVars >>

\* k > window: the for loop ends, return 0
LoopExit ==
    /\ pc = "loop" /\ k > window
    /\ pc' = "returned" /\ snfs_ret' = 0
    /\ UNCHANGED << mainVars, rootVars, p, primes, col_words, m, target_rel, k, dep_mask,
                    factor, trialVars, relations, relation_count, matVars,
                    rhoVars, inserted, last_insert, ext, fallback_called,
                    histVars >>

\* relation_count >= MAX_REL || relation_count >= target_rel: break, return 0
LoopBreak ==
    /\ pc = "loop" /\ k <= window
    /\ (relation_count >= MAX_REL \/ relation_count >= target_rel)
    /\ pc' = "returned" /\ snfs_ret' = 0
    /\ UNCHANGED << mainVars, rootVars, p, primes, col_words, m, target_rel, k, dep_mask,
                    factor, trialVars, relations, relation_count, matVars,
                    rhoVars, inserted, last_insert, ext, fallback_called,
                    histVars >>

\* the sieved value of offset kk: pow_u128(m + k, degree) + 1, in u128
algebraic(mm, kk, d) == (pow_u128((mm + kk) % TwoW, d) + 1) % TwoW

\* a = m + k, algebraic = a^d + 1, memset(&rel, 0), call factor_with_fb
Candidate ==
    /\ pc = "loop" /\ k <= window
    /\ ~(relation_count >= MAX_REL \/ relation_count >= target_rel)
    /\ value' = algebraic(m, k, degree)
    /\ a_exp' = ZeroExp
    /\ i' = 0
    /\ pc' = "trial"
    /\ UNCHANGED << mainVars, rootVars, p, primes, col_words, m, target_rel, k, dep_mask,
                    factor, relations, relation_count, matVars, rhoVars,
                    inserted, last_insert, ext, fallback_called, snfs_ret,
                    histVars >>

\* mutant of bump_exp: the counter saturates at 1
bump_exp_cap1(e) == IF e < 1 THEN e + 1 ELSE e

\* exp_out[i] after one more division: if (exp_out[i] < 250) exp_out[i]++
bump_exp(e) == IF e < EXP_CAP THEN e + 1 ELSE e

\* one iteration of while ((value % p) == 0)
TrialDivide ==
    /\ pc = "trial" /\ i < fb_size
    /\ value % primes[i + 1] = 0
    /\ value' = value \div primes[i + 1]
    /\ a_exp' = [a_exp EXCEPT ![i] = bump_exp(@)]
    /\ UNCHANGED << mainVars, rootVars, p, pc, primes, col_words, m, target_rel, k,
                    dep_mask, factor, i, relations, relation_count, matVars,
                    rhoVars, inserted, last_insert, ext, fallback_called,
                    snfs_ret, histVars >>

\* the while test fails: next prime of the factor base
TrialNext ==
    /\ pc = "trial" /\ i < fb_size
    /\ value % primes[i + 1] # 0
    /\ i' = i + 1
    /\ UNCHANGED << mainVars, rootVars, p, pc, primes, col_words, m, target_rel, k,
                    dep_mask, factor, a_exp, value, relations, relation_count,
                    matVars, rhoVars, inserted, last_insert, ext,
                    fallback_called, snfs_ret, histVars >>

\* mutant of large_prime_ok: the test for room in primes[] is missing
large_prime_ok_full(v, size) == v <= LP_BOUND /\ is_prime_u64(v)

\* mutant of large_prime_ok: the primality test is missing
large_prime_ok_any(v, size) == v <= LP_BOUND /\ size < MAX_FB

\* the large-prime test of factor_with_fb
large_prime_ok(v, size) ==
    v <= LP_BOUND /\ size < MAX_FB /\ is_prime_u64(v)

\* if (value == 1) return 1
Smooth ==
    /\ pc = "trial" /\ i = fb_size
    /\ value = 1
    /\ pc' = "insert"
    /\ UNCHANGED << mainVars, rootVars, p, primes, col_words, m, target_rel, k, dep_mask,
                    factor, trialVars, relations, relation_count, matVars,
                    rhoVars, inserted, last_insert, ext, fallback_called,
                    snfs_ret, histVars >>

\* the large-prime variant: the cofactor becomes a new factor-base column
LargePrime ==
    /\ pc = "trial" /\ i = fb_size
    /\ value # 1 /\ large_prime_ok(value, fb_size)
    /\ primes' = Append(primes, value)
    /\ a_exp' = [a_exp EXCEPT ![fb_size] = 1]
    /\ pc' = "insert"
    /\ UNCHANGED << mainVars, rootVars, p, col_words, m, target_rel, k, dep_mask, factor,
                    value, i, relations, relation_count, matVars, rhoVars,
                    inserted, last_insert, ext, fallback_called, snfs_ret,
                    histVars >>

\* factor_with_fb returns 0: continue with the next k
Discard ==
    /\ pc = "trial" /\ i = fb_size
    /\ value # 1 /\ ~large_prime_ok(value, fb_size)
    /\ k' = k + 1
    /\ pc' = "loop"
    /\ UNCHANGED << mainVars, rootVars, p, primes, col_words, m, target_rel, dep_mask,
                    factor, trialVars, relations, relation_count, matVars,
                    rhoVars, inserted, last_insert, ext, fallback_called,
                    snfs_ret, histVars >>


\* the parity bits the row-building loop writes inside uint64_t row[col_words]
parity_row(exp, size, words) ==
    {j \in 0 .. (size - 1) : exp[j] % 2 = 1 /\ j \in WordBits(words)}

\* the loop runs over all of [0, fb_size): an odd exponent at a column index
\* >= 64 * col_words makes row[i / 64] |= ... a write past the end of the
\* variable-length array row (undefined behaviour)
row_overflow(exp, size, words) ==
    \E j \in 0 .. (size - 1) : exp[j] % 2 = 1 /\ j \notin WordBits(words)

\* mutant of factor_found: the trivial results 0 and 1 end the attempt too
factor_found_any(ff, nn) == ff < nn

\* if (factor > 1 && factor < n) return factor
factor_found(ff, nn) == ff > 1 /\ ff < nn

\* lines 424-449: build the parity row, save the relation, build the identity
\* combination row, insert_row, on a dependency attempt_dependency, then either
\* return the factor or relation_count++ and the loop's k++.  When the row
\* build writes out of bounds this is the outcome in which the stray write hits
\* memory nothing reads (the bit is lost).
InsertRelation ==
    /\ pc = "insert"
    /\ LET rel   == [a_offset |-> k, r_exp |-> ZeroExp, a_exp |-> a_exp]
           row   == parity_row(a_exp, fb_size, col_words)
           rels1 == [relations EXCEPT ![relation_count] = rel]
       IN  \E ins \in {insert_row(row, {relation_count}, col_words, Matrix)} :
           \E e \in {attempt_dependency(ins.out_dep, rels1, relation_count,
                                        primes, n)} :
           /\ relations' = rels1
           /\ inserted' = Append(inserted, row)
           /\ row_bits' = ins.M.row_bits
           /\ combo_bits' = ins.M.combo_bits
           /\ pivot_col' = ins.M.pivot_col
           /\ matrix_rows' = ins.M.matrix_rows
           /\ IF ins.dep = 1
              THEN /\ dep_mask' = ins.out_dep
                   /\ last_insert' = "dependency"
                   /\ factor' = e.ret
                   /\ ext' = [called |-> TRUE, x |-> e.x, y |-> e.y, ret |-> e.ret,
                              mask |-> ins.out_dep, count |-> relation_count]
                   /\ IF factor_found(e.ret, n)
                      THEN /\ pc' = "returned" /\ snfs_ret' = e.ret
                           /\ UNCHANGED << relation_count, k >>
                      ELSE /\ relation_count' = relation_count + 1
                           /\ k' = k + 1
                           /\ pc' = "loop"
                           /\ UNCHANGED snfs_ret
              ELSE /\ last_insert' = "pivot"
                   /\ relation_count' = relation_count + 1
                   /\ k' = k + 1
                   /\ pc' = "loop"
                   /\ UNCHANGED << dep_mask, factor, ext, snfs_ret >>
    /\ UNCHANGED << mainVars, rootVars, p, primes, col_words, m, target_rel, trialVars,
                    rhoVars, fallback_called, histVars >>

\* the other outcome of the out-of-bounds row write: the process dies
\* (observed: gcc -O3 build, SIGSEGV)
RowCrash ==
    /\ pc = "insert"
    /\ row_overflow(a_exp, fb_size, col_words)
    /\ pc' = "crashed"
    /\ UNCHANGED << mainVars, rootVars, p, primes, col_words, m, target_rel, k, dep_mask,
                    factor, trialVars, relations, relation_count, matVars,
                    rhoVars, inserted, last_insert, ext, fallback_called,
                    snfs_ret, histVars >>

\* ======================= main and the fallback =======================

\* u128 p = snfs_factor(...); if (p == 0 || p == n) is false
SnfsSucceeded ==
    /\ pc = "returned"
    /\ ~(snfs_ret = 0 \/ snfs_ret = n)
    /\ p' = snfs_ret
    /\ pc' = "done"
    /\ UNCHANGED << mainVars, rootVars, primes, col_words, m, target_rel, k, dep_mask,
                    factor, trialVars, relations, relation_count, matVars,
                    rhoVars, inserted, last_insert, ext, fallback_called,
                    snfs_ret, histVars >>

\* if (p == 0 || p == n) p = pollard_rho_u128(n): the call
CallFallback ==
    /\ pc = "returned"
    /\ (snfs_ret = 0 \/ snfs_ret = n)
    /\ p' = snfs_ret
    /\ fallback_called' = TRUE
    /\ pc' = "fallback"
    /\ UNCHANGED << mainVars, rootVars, primes, col_words, m, target_rel, k, dep_mask,
                    factor, trialVars, relations, relation_count, matVars,
                    rhoVars, inserted, last_insert, ext, snfs_ret, histVars >>

rho_func(xx, cc, nn) == ((mul_mod(xx, xx, nn) + cc) % TwoW) % nn

\* if ((n & 1) == 0) return 2
RhoEven ==
    /\ pc = "fallback" /\ n % 2 = 0
    /\ p' = 2
    /\ pc' = "done"
    /\ UNCHANGED << mainVars, rootVars, primes, col_words, m, target_rel, k, dep_mask,
                    factor, trialVars, relations, relation_count, matVars,
                    rhoVars, inserted, last_insert, ext, fallback_called,
                    snfs_ret, histVars >>

\* c = 1, attempt = 0, x = y = 2, i = 0
RhoStart ==
    /\ pc = "fallback" /\ n % 2 # 0
    /\ c' = 1 /\ attempt' = 0 /\ x' = 2 /\ y' = 2 /\ iter' = 0
    /\ pc' = "rho"
    /\ UNCHANGED << mainVars, rootVars, p, primes, col_words, m, target_rel, k, dep_mask,
                    factor, trialVars, relations, relation_count, matVars,
                    inserted, last_insert, ext, fallback_called, snfs_ret,
                    histVars >>

rho_d_nogcd(xx, yy, nn) == IF xx > yy THEN xx - yy ELSE yy - xx
\* d after one iteration of the inner loop
rho_d(xx, yy, nn) == gcd_u128(IF xx > yy THEN xx - yy ELSE yy - xx, nn)

\* one iteration of the inner loop
RhoStep ==
    /\ pc = "rho" /\ attempt < RHO_ATTEMPTS /\ iter < RHO_ITERS
    /\ \E x1 \in {rho_func(x, c, n)}, y0 \in {rho_func(y, c, n)} :
       \E y1 \in {rho_func(y0, c, n)} :
       \E d \in {rho_d(x1, y1, n)} :
           /\ x' = x1 /\ y' = y1
           /\ IF d > 1 /\ d < n
              THEN /\ p' = d /\ pc' = "done" /\ UNCHANGED iter
              ELSE /\ iter' = iter + 1 /\ UNCHANGED << p, pc >>
    /\ UNCHANGED << mainVars, rootVars, primes, col_words, m, target_rel, k, dep_mask,
                    factor, trialVars, relations, relation_count, matVars,
                    c, attempt, inserted, last_insert, ext, fallback_called,
                    snfs_ret, histVars >>

\* the inner loop ran out: attempt++, c += 2, x = y = 2
RhoNextConstant ==
    /\ pc = "rho" /\ attempt < RHO_ATTEMPTS /\ iter >= RHO_ITERS
    /\ attempt' = attempt + 1
    /\ c' = c + 2
    /\ x' = 2 /\ y' = 2 /\ iter' = 0
    /\ UNCHANGED << mainVars, rootVars, p, pc, primes, col_words, m, target_rel, k,
                    dep_mask, factor, trialVars, relations, relation_count,
                    matVars, inserted, last_insert, ext, fallback_called,
                    snfs_ret, histVars >>

\* all constants tried: return 0
RhoExhausted ==
    /\ pc = "rho" /\ attempt >= RHO_ATTEMPTS
    /\ p' = 0
    /\ pc' = "done"
    /\ UNCHANGED << mainVars, rootVars, primes, col_words, m, target_rel, k, dep_mask,
                    factor, trialVars, relations, relation_count, matVars,
                    rhoVars, inserted, last_insert, ext, fallback_called,
                    snfs_ret, histVars >>

Next ==
    \/ SnfsEntry \/ LoopExit \/ LoopBreak \/ Candidate
    \/ TrialDivide \/ TrialNext \/ Smooth \/ LargePrime \/ Discard
    \/ InsertRelation \/ RowCrash
    \/ SnfsSucceeded \/ CallFallback
    \/ RhoEven \/ RhoStart \/ RhoStep \/ RhoNextConstant \/ RhoExhausted

Spec == Init /\ [][Next]_vars


\* every step of this single-threaded program is taken as soon as it can be
FairSpec == Spec /\ WF_vars(Next)

\* ---- repeated invocation in one process ----
MaxRuns == 2            \* number of runs of one process image

\* the attempt is made again with the same arguments: the locals are new, the
\* statics (relations, relation_count, row_bits, combo_bits, pivot_col,
\* matrix_rows) are what the earlier run left behind
Reinvoke ==
    /\ pc = "done" /\ run < MaxRuns
    /\ prev' = [valid |-> TRUE, n |-> n, degree |-> degree,
                fb_bound |-> fb_bound, window |-> window, p |-> p]
    /\ run' = run + 1
    /\ pc' = "main"
    /\ p' = 0
    /\ primes' = << >> /\ col_words' = 0 /\ m' = 0 /\ target_rel' = 0 /\ k' = 0
    /\ dep_mask' = {} /\ factor' = 0
    /\ a_exp' = ZeroExp /\ value' = 0 /\ i' = 0
    /\ c' = 0 /\ attempt' = 0 /\ iter' = 0 /\ x' = 0 /\ y' = 0
    /\ inserted' = << >> /\ last_insert' = "none" /\ ext' = NoExt
    /\ fallback_called' = FALSE /\ snfs_ret' = -1
    /\ UNCHANGED << mainVars, rootVars, relations, relation_count, matVars >>

NextRepeat == Next \/ Reinvoke

SpecRepeat == Init /\ [][NextRepeat]_vars

\* ---- the matrix engine on its own ----
MaxInserts == 4         \* number of insert_row calls on one matrix

\* an empty matrix (matrix_rows = 0) of rows of col_words words; col_words is
\* (fb_size + 63) / 64 for a factor base of 1 .. MAX_FB primes
MatrixInit ==
    /\ n = 2 /\ degree = MIN_DEGREE /\ fb_bound = 1 /\ window = 0
    /\ p = 0
    /\ pc = "matrix"
    /\ primes = << >> /\ m = 0 /\ target_rel = 0 /\ k = 0
    /\ col_words \in 1 .. ((MAX_FB + WORD_BITS - 1) \div WORD_BITS)
    /\ dep_mask = {} /\ factor = 0
    /\ a_exp = ZeroExp /\ value = 0 /\ i = 0
    /\ low = 0 /\ high = 0
    /\ relations = [r \in RelIdx |-> ZeroRelation]
    /\ relation_count = 0
    /\ row_bits = [r \in RelIdx |-> {}]
    /\ combo_bits = [r \in RelIdx |-> {}]
    /\ pivot_col = [r \in RelIdx |-> 0]
    /\ matrix_rows = 0
    /\ c = 0 /\ attempt = 0 /\ iter = 0 /\ x = 0 /\ y = 0
    /\ inserted = << >> /\ last_insert = "none" /\ ext = NoExt
    /\ fallback_called = FALSE /\ snfs_ret = -1
    /\ run = 1 /\ prev = NoPrev

\* insert_row called as snfs_factor calls it (combo = the bit of the call's
\* index), on an arbitrary row of col_words words
InsertAny ==
    /\ pc = "matrix" /\ Len(inserted) < MaxInserts
    /\ \E row \in SUBSET WordBits(col_words) :
       \E ins \in {insert_row(row, {relation_count}, col_words, Matrix)} :
           /\ inserted' = Append(inserted, row)
           /\ row_bits' = ins.M.row_bits
           /\ combo_bits' = ins.M.combo_bits
           /\ pivot_col' = ins.M.pivot_col
           /\ matrix_rows' = ins.M.matrix_rows
           /\ relation_count' = relation_count + 1
           /\ last_insert' = IF ins.dep = 1 THEN "dependency" ELSE "pivot"
           /\ dep_mask' = IF ins.dep = 1 THEN ins.out_dep ELSE dep_mask
    /\ UNCHANGED << mainVars, rootVars, p, pc, primes, col_words, m, target_rel, k,
                    factor, trialVars, relations, rhoVars, ext,
                    fallback_called, snfs_ret, histVars >>

MatrixSpec == MatrixInit /\ [][InsertAny]_vars

\* ======================= the demo at full width =======================
\* run_demo's attempt with the program's own constants.  The model checker's
\* integers have 32 bits, so a u128 is held as U128_BYTES bytes, least
\* significant first; int values of the demo (n, m + k, primes) stay integers.

BYTE == 256
U128_BYTES == 16        \* sizeof(u128)
FULL_MAX_FB == 6000     \* #define MAX_FB 6000
FULL_LP_BOUND == 100000000      \* #define LP_BOUND 100000000
FULL_MAX_REL == 12000   \* #define MAX_REL 12000
FULL_OVERSHOOT == 16    \* target_rel = fb_size + 16
FULL_WORD_BITS == 64    \* uint64_t
DEMO_N == 815730722     \* demo_n_str
DEMO_DEGREE == 8        \* int degree = 8
DEMO_FB == 200          \* int fb = 200
DEMO_K == 5000          \* int K = 5000

ByteIdx == 1 .. U128_BYTES

\* (u128)x for a non-negative int x (below 2^31: four bytes)
ToU128(v) ==
    [j \in ByteIdx |-> IF j <= 4 THEN (v \div (BYTE ^ (j - 1))) % BYTE ELSE 0]

\* the int value of a u128 below 2^31, else -1
IntValue(a) ==
    IF a[4] < 128 /\ \A j \in 5 .. U128_BYTES : a[j] = 0
    THEN a[1] + BYTE * (a[2] + BYTE * (a[3] + BYTE * a[4]))
    ELSE -1

\* a + b in u128: byte j takes a carry when some lower byte l produces one
\* (a[l] + b[l] >= BYTE) and every byte between passes it on
\* (a[t] + b[t] = BYTE - 1); the carry out of the top byte is dropped
Add128(a, b) ==
    LET carry(j) ==
            IF \E l \in 1 .. (j - 1) :
                   /\ a[l] + b[l] >= BYTE
                   /\ \A t \in (l + 1) .. (j - 1) : a[t] + b[t] = BYTE - 1
            THEN 1 ELSE 0
    IN  [j \in ByteIdx |-> (a[j] + b[j] + carry(j)) % BYTE]

\* the highest non-zero byte of b (0 when b = 0)
TopByte(b) ==
    IF \A j \in ByteIdx : b[j] = 0 THEN 0
    ELSE CHOOSE j \in ByteIdx : b[j] # 0 /\ \A l \in ByteIdx : l > j => b[l] = 0

\* the sum of the byte products a[kk + 1 - j] * b[j] that land in byte kk
RECURSIVE col_sum(_, _, _, _)
col_sum(a, b, kk, j) ==
    IF j = 0 THEN 0
    ELSE (IF j <= kk THEN a[kk + 1 - j] * b[j] ELSE 0) + col_sum(a, b, kk, j - 1)

\* a * b in u128: byte kk of the product is the column sum plus the carry of
\* the bytes below; what carries out of the top byte is dropped (wrap modulo
\* 2^128)
Mul128(a, b) ==
    LET nb == TopByte(b)
        col == [kk \in ByteIdx |-> col_sum(a, b, kk, nb)]
        carry[kk \in 0 .. U128_BYTES] ==
            IF kk = 0 THEN 0 ELSE (col[kk] + carry[kk - 1]) \div BYTE
    IN  [kk \in ByteIdx |-> (col[kk] + carry[kk - 1]) % BYTE]

\* a > b in u128
Gt128(a, b) ==
    \E j \in ByteIdx :
        a[j] > b[j] /\ \A l \in (j + 1) .. U128_BYTES : a[l] = b[l]

\* long division of the u128 a by a prime s of the factor base (s < 2^23),
\* from the top byte: the remainder brought down to byte j
RECURSIVE rem_bytes(_, _, _)
rem_bytes(a, s, j) ==
    IF j > U128_BYTES THEN 0 ELSE (rem_bytes(a, s, j + 1) * BYTE + a[j]) % s

\* a % s
Mod128(a, s) == rem_bytes(a, s, 1)

\* a / s
Div128(a, s) ==
    [j \in ByteIdx |-> (rem_bytes(a, s, j + 1) * BYTE + a[j]) \div s]

\* pow_u128 at full width: res *= base, exp times
RECURSIVE pow_u128_full(_, _)
pow_u128_full(base, exp) ==
    IF exp <= 0 THEN ToU128(1)
    ELSE CHOOSE r \in {Mul128(res, base) : res \in {pow_u128_full(base, exp - 1)}} :
             TRUE

\* the collecting loop of generate_primes with the program's MAX_FB
\* (for (i = 2; i <= limit && count < MAX_FB; i++) if (is_prime[i])
\* primes[count++] = i): the marked numbers in ascending order, at most MAX_FB
\* of them
collect_primes_full(is_prime) ==
    LET count == IF Cardinality(is_prime) < FULL_MAX_FB
                 THEN Cardinality(is_prime) ELSE FULL_MAX_FB
    IN  [l \in 1 .. count |->
            CHOOSE q \in is_prime : Cardinality({r \in is_prime : r < q}) = l - 1]

generate_primes_full(limit) ==
    collect_primes_full(sieve_loop(2, 2 .. limit, limit))

\* is_prime_u64 for x <= LP_BOUND, the only values factor_with_fb hands it:
\* for (i = 3; i * i <= x; i += 2) if (x % i == 0) return 0;
\* i * i <= x <= LP_BOUND bounds i by LP_ROOT
LP_ROOT == 10000        \* LP_ROOT * LP_ROOT = LP_BOUND

is_prime_u64_full(xx) ==
    IF xx < 2 THEN FALSE
    ELSE IF xx % 2 = 0 THEN xx = 2
    ELSE \A j \in 3 .. LP_ROOT : (j % 2 = 1 /\ j * j <= xx) => xx % j # 0

\* the first index from j on whose prime divides v, fb_size + 1 when there is
\* none: the for loop of factor_with_fb passes a prime that does not divide
\* value without changing anything
next_hit(v, primes_, j) ==
    LET hits == {l \in j .. Len(primes_) : Mod128(v, primes_[l]) = 0}
    IN  IF hits = {} THEN Len(primes_) + 1
        ELSE CHOOSE h \in hits : \A g \in hits : h <= g

\* the argument lists followed at full width: the demo's (main(--demo) ->
\* run_demo) and three command lines n, degree, B, K of main: one whose attempt
\* returns a factor, one whose dependency gives none, one that ends at
\* target_rel
FullRuns ==
    { [n |-> DEMO_N, degree |-> DEMO_DEGREE, fb_bound |-> DEMO_FB, window |-> DEMO_K],
      [n |-> 221, degree |-> 3, fb_bound |-> 7, window |-> 20],
      [n |-> 10403, degree |-> 3, fb_bound |-> 200, window |-> 20],
      [n |-> 15, degree |-> 4, fb_bound |-> 2, window |-> 25] }

\* the entries of relations[] and of the matrix arrays that are followed
FULL_STORE == 64
FullRelIdx == 0 .. (FULL_STORE - 1)

FullZeroRelation == [a_offset |-> 0, r_exp |-> << >>, a_exp |-> << >>]

\* a fresh process with one of the argument lists
DemoInit ==
    /\ \E args \in FullRuns :
           /\ n = args.n /\ degree = args.degree
           /\ fb_bound = args.fb_bound /\ window = args.window
    /\ p = 0
    /\ pc = "main"
    /\ primes = << >> /\ col_words = 0 /\ m = 0 /\ target_rel = 0 /\ k = 0
    /\ dep_mask = {} /\ factor = 0
    /\ a_exp = ZeroExp /\ value = 0 /\ i = 0
    /\ low = 0 /\ high = 0
    /\ relations = [r \in FullRelIdx |-> FullZeroRelation]
    /\ relation_count = 0
    /\ row_bits = [r \in FullRelIdx |-> {}]
    /\ combo_bits = [r \in FullRelIdx |-> {}]
    /\ pivot_col = [r \in FullRelIdx |-> 0]
    /\ matrix_rows = 0
    /\ c = 0 /\ attempt = 0 /\ iter = 0 /\ x = 0 /\ y = 0
    /\ inserted = << >> /\ last_insert = "none" /\ ext = NoExt
    /\ fallback_called = FALSE /\ snfs_ret = -1
    /\ run = 1 /\ prev = NoPrev

\* entry of snfs_factor up to the call of int_root(n > 1 ? n - 1 : n, degree):
\* low = 1, high = n, ans = 1
DemoEntry ==
    /\ pc = "main"
    /\ \E fb \in {generate_primes_full(fb_bound)} :
           IF Len(fb) = 0
           THEN /\ pc' = "returned" /\ snfs_ret' = 0
                /\ UNCHANGED << primes, col_words, m, target_rel,
                                relation_count, matrix_rows, low, high >>
           ELSE /\ primes' = fb
                /\ relation_count' = 0
                /\ matrix_rows' = 0
                /\ col_words' = (Len(fb) + FULL_WORD_BITS - 1) \div FULL_WORD_BITS
                /\ target_rel' = Len(fb) + FULL_OVERSHOOT
                /\ low' = 1
                /\ high' = IF n > 1 THEN n - 1 ELSE n
                /\ m' = 1
                /\ pc' = "int_root"
                /\ UNCHANGED snfs_ret
    /\ UNCHANGED << mainVars, p, k, dep_mask, factor, trialVars, relations,
                    row_bits, combo_bits, pivot_col, rhoVars, inserted,
                    last_insert, ext, fallback_called, histVars >>

\* one iteration of int_root's binary search, for n below 2^31 (low, high and
\* mid stay below n): mid = low + ((high - low) >> 1); pw = pow_u128(mid, k);
\* if (pw == 0 || pw > n) high = mid - 1; else { ans = mid; low = mid + 1; }
DemoRootStep ==
    /\ pc = "int_root" /\ low <= high
    /\ \E mid \in {low + ((high - low) \div 2)} :
       \E base \in {ToU128(mid)}, nn \in {ToU128(IF n > 1 THEN n - 1 ELSE n)} :
       \E pw \in {pow_u128_full(base, degree)} :
           IF pw = ToU128(0) \/ Gt128(pw, nn)
           THEN /\ high' = mid - 1
                /\ UNCHANGED << low, m >>
           ELSE /\ m' = mid
                /\ low' = mid + 1
                /\ UNCHANGED high
    /\ UNCHANGED << mainVars, p, pc, primes, col_words, target_rel, k,
                    dep_mask, factor, trialVars, relations, relation_count,
                    matVars, rhoVars, inserted, last_insert, ext,
                    fallback_called, snfs_ret, histVars >>

\* int_root returns ans (m); the for loop starts at k = 1
DemoRootEnd ==
    /\ pc = "int_root" /\ low > high
    /\ k' = 1
    /\ pc' = "loop"
    /\ UNCHANGED << mainVars, rootVars, p, primes, col_words, m, target_rel,
                    dep_mask, factor, trialVars, relations, relation_count,
                    matVars, rhoVars, inserted, last_insert, ext,
                    fallback_called, snfs_ret, histVars >>

\* one iteration of the for loop begins: algebraic = a^degree + 1 for
\* a = m + k, the exponents are cleared and factor_with_fb is entered at the
\* first prime that divides the value.  On value 0 every value % p is 0 and
\* the while loop of factor_with_fb does not end (pc stays "trial").
DemoCandidate ==
    /\ pc = "loop" /\ k <= window
    /\ ~(relation_count >= FULL_MAX_REL \/ relation_count >= target_rel)
    /\ \E base \in {ToU128(m + k)} :
       \E algebraic_ \in {pow_u128_full(base, degree)} :
       \E v \in {Add128(algebraic_, ToU128(1))} :
           /\ value' = v
           /\ a_exp' = [l \in 1 .. Len(primes) |-> 0]
           /\ IF v = ToU128(0)
              THEN pc' = "trial" /\ i' = 1
              ELSE pc' = "factor_with_fb" /\ i' = next_hit(v, primes, 1)
    /\ UNCHANGED << mainVars, rootVars, p, primes, col_words, m, target_rel, k, dep_mask,
                    factor, relations, relation_count, matVars, rhoVars,
                    inserted, last_insert, ext, fallback_called, snfs_ret,
                    histVars >>

\* while ((value % p) == 0) { value /= p; if (exp_out[i] < 250) exp_out[i]++; }
DemoTrialDivide ==
    /\ pc = "factor_with_fb" /\ i <= Len(primes)
    /\ Mod128(value, primes[i]) = 0
    /\ value' = Div128(value, primes[i])
    /\ a_exp' = [a_exp EXCEPT ![i] = bump_exp(a_exp[i])]
    /\ UNCHANGED << mainVars, rootVars, p, pc, primes, col_words, m, target_rel, k,
                    dep_mask, factor, i, relations, relation_count, matVars,
                    rhoVars, inserted, last_insert, ext, fallback_called,
                    snfs_ret, histVars >>

\* primes[i] divides value no longer: on to the next prime that does
DemoTrialNext ==
    /\ pc = "factor_with_fb" /\ i <= Len(primes)
    /\ Mod128(value, primes[i]) # 0
    /\ i' = next_hit(value, primes, i + 1)
    /\ UNCHANGED << mainVars, rootVars, p, pc, primes, col_words, m, target_rel, k,
                    dep_mask, factor, a_exp, value, relations, relation_count,
                    matVars, rhoVars, inserted, last_insert, ext,
                    fallback_called, snfs_ret, histVars >>

\* the end of factor_with_fb: value == 1, or the large-prime variant, return
\* 1 (the candidate goes on to the row building, pc "insert"); otherwise
\* return 0 and the loop continues with the next k
DemoTrialEnd ==
    /\ pc = "factor_with_fb" /\ i > Len(primes)
    /\ \E iv \in {IntValue(value)} :
           IF value = ToU128(1)
           THEN /\ pc' = "insert"
                /\ UNCHANGED << primes, a_exp, k >>
           ELSE IF iv >= 0 /\ iv <= FULL_LP_BOUND /\ Len(primes) < FULL_MAX_FB
                   /\ is_prime_u64_full(iv)
           THEN /\ primes' = Append(primes, iv)
                /\ a_exp' = Append(a_exp, 1)
                /\ pc' = "insert"
                /\ UNCHANGED k
           ELSE /\ k' = k + 1
                /\ pc' = "loop"
                /\ UNCHANGED << primes, a_exp >>
    /\ UNCHANGED << mainVars, rootVars, p, col_words, m, target_rel, dep_mask, factor,
                    value, i, relations, relation_count, matVars, rhoVars,
                    inserted, last_insert, ext, fallback_called, snfs_ret,
                    histVars >>

\* the loop ends (k > window, or the break on the relation caps): return 0
DemoLoopEnd ==
    /\ pc = "loop"
    /\ \/ k > window
       \/ relation_count >= FULL_MAX_REL
       \/ relation_count >= target_rel
    /\ pc' = "returned" /\ snfs_ret' = 0
    /\ UNCHANGED << mainVars, rootVars, p, primes, col_words, m, target_rel, k, dep_mask,
                    factor, trialVars, relations, relation_count, matVars,
                    rhoVars, inserted, last_insert, ext, fallback_called,
                    histVars >>


\* ======================= Pollard rho at full width =======================

RHO_N == 1106774983             \* 32771 * 33773
FULL_RHO_ATTEMPTS == 5          \* attempt < 5
FULL_RHO_ITERS == 200000        \* i < 200000
STANDALONE_CAP == 10000000      \* *iterations > 10000000

\* (a + b) mod md for a, b < md, as res += a; if (res >= mod) res -= mod
\* computes it in u128 (no wrap: md < 2^127); the sum itself is never formed
add_mod(a, b, md) == IF a >= md - b THEN a - (md - b) ELSE a + b

\* the while (b) loop of mul_mod without wrap
RECURSIVE mul_mod_full_loop(_, _, _, _)
mul_mod_full_loop(res, a, b, md) ==
    IF b = 0 THEN res % md
    ELSE CHOOSE r \in
             {mul_mod_full_loop(res1, a1, b \div 2, md) :
                  res1 \in {IF b % 2 = 1 THEN add_mod(res, a, md) ELSE res},
                  a1 \in {add_mod(a, a, md)}} : TRUE

mul_mod_full(a, b, md) == mul_mod_full_loop(0, a % md, b, md)

\* rho_func: (mul_mod(x, x, n) + c) % n
rho_func_full(xx, cc, nn) == add_mod(mul_mod_full(xx, xx, nn), cc % nn, nn)

\* one iteration of pollard_rho_u128's inner loop
FullRhoStep ==
    /\ pc = "rho" /\ attempt < FULL_RHO_ATTEMPTS /\ iter < FULL_RHO_ITERS
    /\ \E x1 \in {rho_func_full(x, c, n)}, y0 \in {rho_func_full(y, c, n)} :
       \E y1 \in {rho_func_full(y0, c, n)} :
       \E d \in {rho_d(x1, y1, n)} :
           /\ x' = x1 /\ y' = y1
           /\ IF d > 1 /\ d < n
              THEN /\ p' = d /\ pc' = "done" /\ UNCHANGED iter
              ELSE /\ iter' = iter + 1 /\ UNCHANGED << p, pc >>
    /\ UNCHANGED << mainVars, rootVars, primes, col_words, m, target_rel, k,
                    dep_mask, factor, trialVars, relations, relation_count,
                    matVars, c, attempt, inserted, last_insert, ext,
                    fallback_called, snfs_ret, histVars >>

\* the standalone pollards_rho (pollards_rho.c, test_factorization):
\* f(x) = ((__uint128_t)x * x + 1) % n, the product taken exactly
f(xx, nn) == add_mod(mul_mod_full(xx, xx, nn), 1 % nn, nn)

\* *iterations = 0; if (n % 2 == 0) { *iterations = 1; return 2; }
\* x = 2, y = 2, d = 1
PollardsRhoEntry ==
    /\ pc = "pollards_rho"
    /\ IF n % 2 = 0
       THEN iter' = 1 /\ p' = 2 /\ pc' = "rho_returned" /\ UNCHANGED << x, y >>
       ELSE iter' = 0 /\ x' = 2 /\ y' = 2 /\ pc' = "while" /\ UNCHANGED p
    /\ UNCHANGED << mainVars, rootVars, primes, col_words, m, target_rel, k,
                    dep_mask, factor, trialVars, relations, relation_count,
                    matVars, c, attempt, inserted, last_insert, ext,
                    fallback_called, snfs_ret, histVars >>

\* one turn of while (d == 1): the loop is left with return 0 past the
\* iteration cap, goes on while d == 1, and otherwise ends with
\* return (d != n) ? d : 0
PollardsRhoStep ==
    /\ pc = "while"
    /\ iter' = iter + 1
    /\ \E x1 \in {f(x, n)}, y0 \in {f(y, n)} :
       \E y1 \in {f(y0, n)} :
       \E d \in {rho_d(x1, y1, n)} :
           /\ x' = x1 /\ y' = y1
           /\ IF iter + 1 > STANDALONE_CAP
              THEN p' = 0 /\ pc' = "rho_returned"
              ELSE IF d = 1
              THEN UNCHANGED << p, pc >>
              ELSE p' = (IF d # n THEN d ELSE 0) /\ pc' = "rho_returned"
    /\ UNCHANGED << mainVars, rootVars, primes, col_words, m, target_rel, k,
                    dep_mask, factor, trialVars, relations, relation_count,
                    matVars, c, attempt, inserted, last_insert, ext,
                    fallback_called, snfs_ret, histVars >>

\* scenario 2: n = 1106774983 handed to pollard_rho_u128 (the sieve has given
\* up: pc "fallback") or to the standalone pollards_rho
RhoInit ==
    /\ n = RHO_N /\ degree = MIN_DEGREE /\ fb_bound = 2 /\ window = 1
    /\ p = 0
    /\ pc \in {"fallback", "pollards_rho"}
    /\ primes = << >> /\ col_words = 0 /\ m = 0 /\ target_rel = 0 /\ k = 0
    /\ dep_mask = {} /\ factor = 0
    /\ a_exp = ZeroExp /\ value = 0 /\ i = 0
    /\ low = 0 /\ high = 0
    /\ relations = [r \in RelIdx |-> ZeroRelation]
    /\ relation_count = 0
    /\ row_bits = [r \in RelIdx |-> {}]
    /\ combo_bits = [r \in RelIdx |-> {}]
    /\ pivot_col = [r \in RelIdx |-> 0]
    /\ matrix_rows = 0
    /\ c = 0 /\ attempt = 0 /\ iter = 0 /\ x = 0 /\ y = 0
    /\ inserted = << >> /\ last_insert = "none" /\ ext = NoExt
    /\ fallback_called = (pc = "fallback") /\ snfs_ret = -1
    /\ run = 1 /\ prev = NoPrev

RhoNext == RhoStart \/ FullRhoStep \/ PollardsRhoEntry \/ PollardsRhoStep

RhoSpec == RhoInit /\ [][RhoNext]_vars

\* ======================= the matrix at full width =======================

\* the bit indices held by the first `words` uint64_t words of a row
FullWordBits(words) == 0 .. (FULL_WORD_BITS * words - 1)

first_set_bit_full(row, words) ==
    LET inside == row \cap FullWordBits(words)
    IN  IF inside = {} THEN -1
        ELSE CHOOSE b \in inside : \A e \in inside : b <= e

xor_rows_full(dst, src, words) ==
    SymDiff(dst \cap FullWordBits(words), src \cap FullWordBits(words))
        \cup (dst \ FullWordBits(words))

row_is_zero_full(row, words) == row \cap FullWordBits(words) = {}

copy_words_full(dst, src, words) ==
    (src \cap FullWordBits(words)) \cup (dst \ FullWordBits(words))

\* the reduction loop of insert_row: for (r = 0; r < matrix_rows; r++)
RECURSIVE reduce_loop_full(_, _, _, _, _)
reduce_loop_full(r, row, combo, M, words) ==
    IF r >= M.matrix_rows THEN [row |-> row, combo |-> combo]
    ELSE IF M.pivot_col[r] \in row
         THEN CHOOSE res \in
                  {reduce_loop_full(r + 1, row1, combo1, M, words) :
                       row1 \in {xor_rows_full(row, M.row_bits[r], words)},
                       combo1 \in {SymDiff(combo, M.combo_bits[r])}} : TRUE
         ELSE reduce_loop_full(r + 1, row, combo, M, words)

\* insert_row with 64-bit words
insert_row_full(row, combo, words, M) ==
    LET red == reduce_loop_full(0, row, combo, M, words)
        pc0 == first_set_bit_full(red.row, words)
    IN  IF row_is_zero_full(red.row, words)
        THEN [dep |-> 1, out_dep |-> red.combo, M |-> M]
        ELSE IF pc0 < 0
        THEN [dep |-> 0, out_dep |-> {}, M |-> M]
        ELSE [dep |-> 0, out_dep |-> {},
              M |-> [row_bits    |-> [M.row_bits EXCEPT ![M.matrix_rows] =
                                        copy_words_full(@, red.row, words)],
                     combo_bits  |-> [M.combo_bits EXCEPT ![M.matrix_rows] = red.combo],
                     pivot_col   |-> [M.pivot_col EXCEPT ![M.matrix_rows] = pc0],
                     matrix_rows |-> M.matrix_rows + 1]]

\* exponent of column j (counted from 1) in an exponent vector kept up to the
\* factor-base size of its time: the columns beyond are the zeros of memset
exp_at(e, j) == IF j \in DOMAIN e THEN e[j] ELSE 0

\* row[i / 64] |= 1 << (i % 64) for the odd exponents, inside uint64_t
\* row[col_words]
parity_row_full(exp, size, words) ==
    {j \in 0 .. (size - 1) : exp_at(exp, j + 1) % 2 = 1 /\ j \in FullWordBits(words)}

\* the same write past the end of row (undefined behaviour)
row_overflow_full(exp, size, words) ==
    \E j \in 0 .. (size - 1) : exp_at(exp, j + 1) % 2 = 1 /\ j \notin FullWordBits(words)

\* pow_mod over mul_mod_full
RECURSIVE pow_mod_full_loop(_, _, _, _)
pow_mod_full_loop(result, base, exp, md) ==
    IF exp = 0 THEN result
    ELSE CHOOSE r \in
             {pow_mod_full_loop(r1, b1, exp \div 2, md) :
                  r1 \in {IF exp % 2 = 1 THEN mul_mod_full(result, base, md)
                          ELSE result},
                  b1 \in {mul_mod_full(base, base, md)}} : TRUE

pow_mod_full(base, exp, md) == pow_mod_full_loop(1, base % md, exp, md)

\* total_r[j] / total_a[j] of attempt_dependency, column j counted from 1
RECURSIVE total_exp_full(_, _, _, _, _)
total_exp_full(side, j, cnt, mask, rels) ==
    IF cnt <= 0 THEN 0
    ELSE total_exp_full(side, j, cnt - 1, mask, rels)
         + (IF (cnt - 1) \in mask THEN exp_at(rels[cnt - 1][side], j) ELSE 0)

\* x (side r_exp) or y (side a_exp) of attempt_dependency: the product over the
\* columns 1 .. j of primes[j]^(total[j] / 2) mod n; a column whose total is 0
\* is passed over (if (total_a[j]) ...)
RECURSIVE half_product_full(_, _, _, _, _, _)
half_product_full(side, j, mask, rels, cnt, ctx) ==
    LET cols == {l \in 1 .. j : total_exp_full(side, l, cnt, mask, rels) # 0}
    IN  IF cols = {} THEN 1
        ELSE LET top == CHOOSE l \in cols : \A g \in cols : g <= l
             IN  CHOOSE r \in
                     {mul_mod_full(before,
                                   pow_mod_full(ctx.primes[top], tot \div 2, ctx.n),
                                   ctx.n) :
                          before \in {half_product_full(side, top - 1, mask, rels,
                                                        cnt, ctx)},
                          tot \in {total_exp_full(side, top, cnt, mask, rels)}} : TRUE

\* the two gcd tests; x, y < n, so x + y does not wrap
extract_gcd_full(xx, yy, nn) ==
    LET diff == IF xx > yy THEN xx - yy ELSE yy - xx
        g1   == gcd_u128(diff, nn)
        g2   == gcd_u128(add_mod(xx, yy, nn), nn)
    IN  IF g1 > 1 /\ g1 < nn THEN g1
        ELSE IF g2 > 1 /\ g2 < nn THEN g2
        ELSE 0

attempt_dependency_full(mask, rels, cnt, primes_, n_) ==
    LET ctx == [primes |-> primes_, n |-> n_]
        xx  == half_product_full("r_exp", Len(primes_), mask, rels, cnt, ctx)
        yy  == half_product_full("a_exp", Len(primes_), mask, rels, cnt, ctx)
    IN  [x |-> xx, y |-> yy, ret |-> extract_gcd_full(xx, yy, n_)]

\* lines 424-449 at full width: the parity row, the saved relation, the
\* identity combination row, insert_row, on a dependency attempt_dependency,
\* then return factor or relation_count++ and k++.  A write past the end of
\* row either goes unnoticed (the bit is lost) or ends the process.
DemoInsert ==
    /\ pc = "insert"
    /\ \E lost \in {row_overflow_full(a_exp, Len(primes), col_words)} :
       \E crash \in (IF lost THEN BOOLEAN ELSE {FALSE}) :
       IF crash
       THEN /\ pc' = "crashed"
            /\ UNCHANGED << k, dep_mask, factor, relations, relation_count,
                            matVars, inserted, last_insert, ext, snfs_ret >>
       ELSE \E row \in {parity_row_full(a_exp, Len(primes), col_words)},
               rels1 \in {[relations EXCEPT ![relation_count] =
                             [a_offset |-> k, r_exp |-> << >>, a_exp |-> a_exp]]} :
            \E ins \in {insert_row_full(row, {relation_count}, col_words, Matrix)} :
            \E e \in {IF ins.dep = 1
                      THEN attempt_dependency_full(ins.out_dep, rels1,
                                                   relation_count, primes, n)
                      ELSE [x |-> 0, y |-> 0, ret |-> 0]} :
            /\ relations' = rels1
            /\ inserted' = Append(inserted, row)
            /\ row_bits' = ins.M.row_bits
            /\ combo_bits' = ins.M.combo_bits
            /\ pivot_col' = ins.M.pivot_col
            /\ matrix_rows' = ins.M.matrix_rows
            /\ IF ins.dep = 1
               THEN /\ dep_mask' = ins.out_dep
                    /\ last_insert' = "dependency"
                    /\ factor' = e.ret
                    /\ ext' = [called |-> TRUE, x |-> e.x, y |-> e.y, ret |-> e.ret,
                               mask |-> ins.out_dep, count |-> relation_count]
                    /\ IF factor_found(e.ret, n)
                       THEN /\ pc' = "returned" /\ snfs_ret' = e.ret
                            /\ UNCHANGED << relation_count, k >>
                       ELSE /\ relation_count' = relation_count + 1
                            /\ k' = k + 1
                            /\ pc' = "loop"
                            /\ UNCHANGED snfs_ret
               ELSE /\ last_insert' = "pivot"
                    /\ relation_count' = relation_count + 1
                    /\ k' = k + 1
                    /\ pc' = "loop"
                    /\ UNCHANGED << dep_mask, factor, ext, snfs_ret >>
    /\ UNCHANGED << mainVars, rootVars, p, primes, col_words, m, target_rel,
                    trialVars, rhoVars, fallback_called, histVars >>

\* main or run_demo: snfs_factor, then the fallback when p == 0 || p == n
DemoNext ==
    \/ DemoEntry \/ DemoRootStep \/ DemoRootEnd \/ DemoCandidate
    \/ DemoTrialDivide \/ DemoTrialNext \/ DemoTrialEnd \/ DemoInsert
    \/ DemoLoopEnd
    \/ SnfsSucceeded \/ CallFallback \/ RhoEven \/ RhoStart \/ FullRhoStep

DemoSpec == DemoInit /\ [][DemoNext]_vars

\* ======================= mul_mod and pow_mod alone =======================

\* a call of mul_mod(a, b, mod) or pow_mod(base, exp, mod) with any u128
\* arguments, mod >= 1: the arguments are kept in x, y and n, the result is
\* returned in p
ArithInit ==
    /\ x \in U128 /\ y \in U128 /\ n \in 1 .. (TwoW - 1)
    /\ pc = "arith"
    /\ degree = MIN_DEGREE /\ fb_bound = 1 /\ window = 0
    /\ p = 0
    /\ primes = << >> /\ col_words = 0 /\ m = 0 /\ target_rel = 0 /\ k = 0
    /\ dep_mask = {} /\ factor = 0
    /\ a_exp = ZeroExp /\ value = 0 /\ i = 0
    /\ low = 0 /\ high = 0
    /\ relations = [r \in RelIdx |-> ZeroRelation]
    /\ relation_count = 0
    /\ row_bits = [r \in RelIdx |-> {}]
    /\ combo_bits = [r \in RelIdx |-> {}]
    /\ pivot_col = [r \in RelIdx |-> 0]
    /\ matrix_rows = 0
    /\ c = 0 /\ attempt = 0 /\ iter = 0
    /\ inserted = << >> /\ last_insert = "none" /\ ext = NoExt
    /\ fallback_called = FALSE /\ snfs_ret = -1
    /\ run = 1 /\ prev = NoPrev

CallMulMod ==
    /\ pc = "arith"
    /\ p' = mul_mod(x, y, n)
    /\ pc' = "mul_mod_returned"
    /\ UNCHANGED << mainVars, rootVars, primes, col_words, m, target_rel, k,
                    dep_mask, factor, trialVars, relations, relation_count,
                    matVars, rhoVars, inserted, last_insert, ext,
                    fallback_called, snfs_ret, histVars >>

CallPowMod ==
    /\ pc = "arith"
    /\ p' = pow_mod(x, y, n)
    /\ pc' = "pow_mod_returned"
    /\ UNCHANGED << mainVars, rootVars, primes, col_words, m, target_rel, k,
                    dep_mask, factor, trialVars, relations, relation_count,
                    matVars, rhoVars, inserted, last_insert, ext,
                    fallback_called, snfs_ret, histVars >>

ArithNext == CallMulMod \/ CallPowMod

ArithSpec == ArithInit /\ [][ArithNext]_vars

\* ======================= the standalone factorers =======================

MaxFactor == 17

\* (uint64_t)sqrt((double)n): the conversion truncates
isqrt(nn) == CHOOSE r \in 0 .. nn : r * r <= nn /\ (r + 1) * (r + 1) > nn

td_limit_low(nn) == isqrt(nn) - 1
\* uint64_t limit = (uint64_t)sqrt((double)n) + 1;
td_limit(nn) == isqrt(nn) + 1

\* *iterations = 0; if (n % 2 == 0) { *iterations = 1; return 2; }
\* for (uint64_t i = 3; ...
TrialDivisionEntry ==
    /\ pc = "trial_division"
    /\ IF n % 2 = 0
       THEN iter' = 1 /\ p' = 2 /\ pc' = "td_returned" /\ UNCHANGED i
       ELSE iter' = 0 /\ i' = 3 /\ pc' = "for" /\ UNCHANGED p
    /\ UNCHANGED << mainVars, rootVars, primes, col_words, m, target_rel, k,
                    dep_mask, factor, a_exp, value, relations, relation_count,
                    matVars, c, attempt, x, y, inserted, last_insert, ext,
                    fallback_called, snfs_ret, histVars >>

\* for (...; i <= limit; i += 2) { (*iterations)++; if (n % i == 0) return i; }
\* return n;
TrialDivisionStep ==
    /\ pc = "for"
    /\ IF i <= td_limit(n)
       THEN /\ iter' = iter + 1
            /\ IF n % i = 0
               THEN p' = i /\ pc' = "td_returned" /\ UNCHANGED i
               ELSE i' = i + 2 /\ UNCHANGED << p, pc >>
       ELSE p' = n /\ pc' = "td_returned" /\ UNCHANGED << i, iter >>
    /\ UNCHANGED << mainVars, rootVars, primes, col_words, m, target_rel, k,
                    dep_mask, factor, a_exp, value, relations, relation_count,
                    matVars, c, attempt, x, y, inserted, last_insert, ext,
                    fallback_called, snfs_ret, histVars >>

\* test_algorithm: factor_func(tests[i].n, &iterations) on a semiprime
Semiprimes ==
    {a * b : a, b \in {q \in 2 .. MaxFactor : \A d \in 2 .. (q - 1) : q % d # 0}}

StandaloneInit ==
    /\ n \in Semiprimes
    /\ degree = MIN_DEGREE /\ fb_bound = 2 /\ window = 1
    /\ p = 0
    /\ pc \in {"trial_division", "pollards_rho"}
    /\ primes = << >> /\ col_words = 0 /\ m = 0 /\ target_rel = 0 /\ k = 0
    /\ dep_mask = {} /\ factor = 0
    /\ a_exp = ZeroExp /\ value = 0 /\ i = 0
    /\ low = 0 /\ high = 0
    /\ relations = [r \in RelIdx |-> ZeroRelation]
    /\ relation_count = 0
    /\ row_bits = [r \in RelIdx |-> {}]
    /\ combo_bits = [r \in RelIdx |-> {}]
    /\ pivot_col = [r \in RelIdx |-> 0]
    /\ matrix_rows = 0
    /\ c = 0 /\ attempt = 0 /\ iter = 0 /\ x = 0 /\ y = 0
    /\ inserted = << >> /\ last_insert = "none" /\ ext = NoExt
    /\ fallback_called = FALSE /\ snfs_ret = -1
    /\ run = 1 /\ prev = NoPrev

StandaloneNext ==
    \/ TrialDivisionEntry \/ TrialDivisionStep
    \/ PollardsRhoEntry \/ PollardsRhoStep

StandaloneSpec == StandaloneInit /\ [][StandaloneNext]_vars

\* ======================= properties =======================

Divides(d, v) == d # 0 /\ v % d = 0
Nontrivial(g, nn) == 1 < g /\ g < nn /\ Divides(g, nn)

\* attempt_dependency's return value is a function of x, y and n alone, and
\* x and y are residues below n (1, or results of mul_mod); the statements
\* over all such x and y are evaluated in one initial state per n
OncePerN ==
    pc = "main" /\ degree = MIN_DEGREE /\ fb_bound = 1 /\ window = 0 /\ run = 1

\* C1: soundness of the extractor. Whenever attempt_dependency returns a
\* non-zero value g, g divides n and 1 < g < n; and every non-zero value
\* returned by snfs_factor is a nontrivial divisor of n.
C1_Soundness ==
    /\ (ext.called /\ ext.ret # 0) => Nontrivial(ext.ret, n)
    /\ (snfs_ret # -1 /\ snfs_ret # 0) => Nontrivial(snfs_ret, n)
    /\ OncePerN =>
           \A xx, yy \in 0 .. (n - 1) :
               extract_gcd(xx, yy, n) # 0 => Nontrivial(extract_gcd(xx, yy, n), n)

\* snfs_factor has returned a factor that attempt_dependency extracted from a
\* dependency of at least two relations
C1_Witness ==
    /\ pc = "returned" /\ snfs_ret > 1
    /\ ext.called /\ ext.ret = snfs_ret
    /\ Cardinality(ext.mask) >= 2

\* C2: echelon invariant of the matrix engine. The pivot columns of the
\* stored pivots are pairwise distinct, pivot_col[r] is the lowest set bit of
\* row_bits[r], and no stored pivot has the column bit of an earlier pivot.
C2_Echelon ==
    /\ \A r1, r2 \in 0 .. (matrix_rows - 1) :
           r1 # r2 => pivot_col[r1] # pivot_col[r2]
    /\ \A r \in 0 .. (matrix_rows - 1) :
           /\ pivot_col[r] \in row_bits[r]
           /\ \A b \in row_bits[r] : pivot_col[r] <= b
    /\ \A r1, r2 \in 0 .. (matrix_rows - 1) :
           r1 < r2 => pivot_col[r1] \notin row_bits[r2]

\* two pivots are stored and the row of the last one was changed by the
\* reduction before it was stored
C2_Witness ==
    /\ matrix_rows >= 2
    /\ last_insert = "pivot"
    /\ inserted[Len(inserted)] # row_bits[matrix_rows - 1]

\* a row reduced against the stored pivots in insertion order
RECURSIVE ReReduce(_, _)
ReReduce(r, row) ==
    IF r >= matrix_rows THEN row
    ELSE ReReduce(r + 1,
                  IF pivot_col[r] \in row THEN SymDiff(row, row_bits[r]) ELSE row)

\* C3: after every insert_row call, every row handed to insert_row so far, in
\* its unreduced form, reduces to the all-zero row against the current pivots
\* taken in insertion order.
C3_ReReduceZero ==
    \A idx \in 1 .. Len(inserted) : ReReduce(0, inserted[idx]) = {}

\* three rows went in and the last, a non-zero row, was reduced to zero by
\* the stored pivots and reported dependent
C3_Witness ==
    /\ Len(inserted) >= 3
    /\ last_insert = "dependency"
    /\ matrix_rows >= 2
    /\ inserted[Len(inserted)] # {}

\* the product over the factor-base columns of primes[j]^exp[j]
RECURSIVE ColumnProduct(_, _)
ColumnProduct(exp, j) ==
    IF j <= 0 THEN 1 ELSE ColumnProduct(exp, j - 1) * (primes[j] ^ exp[j - 1])

\* indices of the relation store in use: relation_count of them, and the one
\* saved at relations[relation_count] when snfs_factor returned its factor
\* before relation_count++
StoredRelations ==
    {r \in RelIdx : r < relation_count
                    \/ (r = relation_count /\ pc \in {"returned", "done"}
                        /\ snfs_ret > 1)}

InSnfs == pc \in {"loop", "trial", "insert", "returned"}

\* C4: smoothness invariant. For every stored relation with offset k, the
\* product of primes[j]^a_exp[j] over all columns (large-prime columns
\* included) equals the sieved value, the u128 pow_u128(m + k, degree) + 1.
C4_Smoothness ==
    (pc # "main") =>
        \A r \in StoredRelations :
            ColumnProduct(relations[r].a_exp, fb_size)
                = algebraic(m, relations[r].a_offset, degree)

\* a stored relation with a squared prime and a stored relation that brought
\* a large-prime column
C4_Witness ==
    /\ InSnfs /\ relation_count >= 2
    /\ \E r \in StoredRelations : \E j \in FbIdx : relations[r].a_exp[j] >= 2
    /\ \E r \in StoredRelations : \E j \in 0 .. (fb_size - 1) :
           /\ relations[r].a_exp[j] = 1
           /\ primes[j + 1] > fb_bound


C6_RhoNontrivial ==
    (pc = "done" /\ fallback_called) => (p = 0 \/ Nontrivial(p, n))

\* C7: termination. Every call of snfs_factor, and of the fallback after it,
\* comes to an end. (At value = 0 the loop while ((value % p) == 0) divides 0
\* by p for ever; once exp_out[i] has saturated at 250 the program repeats one
\* and the same state, which is the stuttering the checker reports.)
C7_Terminates == <>(pc \in {"done", "crashed"})

\* primality, by definition
IsPrime(v) == v >= 2 /\ \A q \in 2 .. (v - 1) : v % q # 0

PrimeCount(limit) == Cardinality({q \in 2 .. limit : IsPrime(q)})

Aborts == pc' = "returned" /\ snfs_ret' = 0

\* C8: exceeding a fixed capacity aborts the attempt with the failure value:
\* more primes <= B than MAX_FB, a large prime arriving at a full factor base,
\* a full relation store, a factor base wider than the bit rows.
C8_CapacityFatal ==
    [][ /\ (pc = "main" /\ PrimeCount(fb_bound) > MAX_FB) => Aborts
        /\ (pc = "trial" /\ i = fb_size /\ value # 1 /\ value <= LP_BOUND
              /\ IsPrime(value) /\ fb_size >= MAX_FB) => Aborts
        /\ (pc = "loop" /\ k <= window /\ relation_count >= MAX_REL) => Aborts
        /\ (pc = "insert" /\ fb_size > WORD_BITS * col_words) => Aborts
      ]_vars

\* the values the window sieves: pow_u128(m + k, degree) + 1 for k in 1..K
SievedValues ==
    {algebraic(int_root(n - 1, degree), kk, degree) : kk \in 1 .. window}

\* B is smaller than the least prime factor of v
AboveBound(v) == v >= 2 /\ \A q \in 2 .. fb_bound : v % q # 0

NothingAccepted ==
    /\ (pc # "main") => (relation_count = 0 /\ matrix_rows = 0)
    /\ (snfs_ret # -1) => snfs_ret = 0
    /\ (pc = "done") => fallback_called

FallbackOnlyAfterFailure == fallback_called => (snfs_ret = 0 \/ snfs_ret = n)

\* C9 as stated: if B is smaller than the least prime factor of every sieved
\* value, no relation is accepted, snfs_factor returns 0 and main calls the
\* fallback; the fallback is called only after snfs_factor returned 0 or n.
C9_BoundaryAsStated ==
    /\ (\A v \in SievedValues : AboveBound(v)) => NothingAccepted
    /\ FallbackOnlyAfterFailure

\* C9 amended: the same, provided also that no sieved value is itself a prime
\* <= LP_BOUND (such a value is accepted by the large-prime rule).
C9_Boundary ==
    /\ (\A v \in SievedValues :
            AboveBound(v) /\ ~(v <= LP_BOUND /\ IsPrime(v))) => NothingAccepted
    /\ FallbackOnlyAfterFailure

\* a window with a candidate that was discarded, snfs_factor returned 0 and
\* the fallback ran
C9_Witness ==
    /\ pc = "done" /\ fallback_called
    /\ window >= 1 /\ fb_bound >= 2
    /\ \A v \in SievedValues : AboveBound(v) /\ ~(v <= LP_BOUND /\ IsPrime(v))

\* the last extractor call saw even sums in every column and x = y
TrivialCongruence ==
    /\ ext.called
    /\ \A j \in FbIdx :
           total_exp("a_exp", j, ext.count, ext.mask, relations) % 2 = 0
    /\ ext.x = ext.y

\* C10 as stated: on even exponent sums and x = y (mod n) attempt_dependency
\* returns 0.
C10_TrivialAsStated == TrivialCongruence => ext.ret = 0

\* the greatest common divisor, by definition (b > 0)
GCD(a, b) ==
    CHOOSE d \in 1 .. b :
        /\ a % d = 0 /\ b % d = 0
        /\ \A e \in 1 .. b : (a % e = 0 /\ b % e = 0) => e <= d

\* x + y reduced once by n, in u128
SumModN(xx, yy, nn) ==
    LET s0 == (xx + yy) % TwoW IN IF s0 >= nn THEN s0 - nn ELSE s0

\* gcd((x + y) mod n, n) when that is a nontrivial divisor of n, else 0
SumFactor(xx, yy, nn) ==
    LET g == GCD(SumModN(xx, yy, nn), nn)
    IN  IF 1 < g /\ g < nn THEN g ELSE 0

\* C10 amended: on even exponent sums and x = y (mod n) attempt_dependency
\* returns gcd((x + y) mod n, n) when that is a nontrivial divisor of n, and 0
\* otherwise.
C10_TrivialOrSum ==
    /\ TrivialCongruence => ext.ret = SumFactor(ext.x, ext.y, n)
    /\ OncePerN =>
           \A xx \in 0 .. (n - 1) : extract_gcd(xx, xx, n) = SumFactor(xx, xx, n)

\* a trivial congruence whose sum test yields a factor
C10_Witness ==
    /\ TrivialCongruence
    /\ ext.ret # 0
    /\ ext.mask # {}


\* C11: scenario 1. snfs_factor(815730722, 8, 200, 5000) returns, from the
\* sieve itself, one of the two prime factors of 815730722 = 2 * 407865361.
C11_SieveFactorsDemo ==
    (n = DEMO_N /\ snfs_ret # -1) => snfs_ret \in {2, DEMO_N \div 2}

\* C12: scenario 2. On n = 1106774983 = 32771 * 33773 pollard_rho_u128 returns
\* 32771 or 33773 with its first constant and before the cap of 200000
\* iterations, and the standalone pollards_rho returns one of the two as well.
C12_RhoScenario ==
    /\ pc \in {"done", "rho_returned"} => p \in {32771, 33773}
    /\ pc = "rho" => (attempt = 0 /\ iter < FULL_RHO_ITERS)
    /\ pc = "while" => iter < FULL_RHO_ITERS

C12_Witness == pc = "done" /\ p = 32771 /\ fallback_called /\ iter = 182

\* what test_algorithm accepts: p != 0 and p != n, q = n / p, p * q == n,
\* p > 1, q > 1
Accepted(ff, nn) ==
    ff # 0 /\ ff # nn /\ ff > 1 /\ nn \div ff > 1 /\ ff * (nn \div ff) = nn

\* C13 as stated: on every semiprime both trial_division and pollards_rho
\* return a value the test accepts.
C13_BothFactorAll ==
    pc \in {"td_returned", "rho_returned"} => Accepted(p, n)

\* the semiprimes of the tests table whose factors are within MaxFactor
TestsTable == {15, 35, 77, 91, 143, 221, 4, 6, 9, 49}

\* C13, amended: on every semiprime trial_division returns a value the test
\* accepts; pollards_rho returns such a value or 0, and on the semiprimes of
\* the tests table it returns such a value.
C13_FactorOrGiveUp ==
    /\ pc = "td_returned" => Accepted(p, n)
    /\ pc = "rho_returned" => (p = 0 \/ Accepted(p, n))
    /\ (pc = "rho_returned" /\ n \in TestsTable) => Accepted(p, n)

C13_Witness == pc = "rho_returned" /\ n = 221 /\ p = 13 /\ iter > 1

\* the XOR over the relations of mask of their exponent parities in column j
ParityXor(mask, j) ==
    Cardinality({r \in mask : relations[r].a_exp[j] % 2 = 1}) % 2

\* C14: the mask insert_row reports with a dependency XORs the exponent-parity
\* vectors of its relations to zero in every factor-base column, and the
\* combo_bits of every stored pivot XOR the parity vectors to its row_bits.
C14_TrueDependency ==
    /\ last_insert = "dependency" => \A j \in FbIdx : ParityXor(dep_mask, j) = 0
    /\ \A r \in 0 .. (matrix_rows - 1) :
           row_bits[r] = {j \in FbIdx : ParityXor(combo_bits[r], j) = 1}

\* C15: at every call of attempt_dependency the sums total_a[j] and total_r[j]
\* it accumulates (over i < relation_count with bit i of the mask set) are
\* even in every factor-base column.
C15_EvenSums ==
    ext.called =>
        \A j \in FbIdx :
            /\ total_exp("a_exp", j, ext.count, ext.mask, relations) % 2 = 0
            /\ total_exp("r_exp", j, ext.count, ext.mask, relations) % 2 = 0


\* C16: no bit-index drift.  Whenever an accepted relation reaches the row
\* build, every column i < fb_size with an odd exponent lies inside the row,
\* i < 64 * col_words, however many large primes grew fb_size after col_words
\* was computed.
C16_NoBitDrift ==
    pc = "insert" => ~row_overflow(a_exp, fb_size, col_words)


\* C17: a dependency whose extraction yields no factor does not end the
\* attempt: the relation stays in the store (relation_count grows by one, no
\* pivot is added) and the loop goes on with the next k; snfs_factor's loop is
\* left only with a nontrivial factor, on k > K, or at the target / hard
\* relation cap.
C17_TrivialGoesOn ==
    [][ /\ (pc = "insert" /\ pc' # "crashed" /\ last_insert' = "dependency"
              /\ ~(ext'.ret > 1 /\ ext'.ret < n))
           => /\ pc' = "loop"
              /\ k' = k + 1
              /\ relation_count' = relation_count + 1
              /\ relations'[relation_count].a_offset = k
              /\ relations'[relation_count].a_exp = a_exp
              /\ matrix_rows' = matrix_rows
              /\ snfs_ret' = snfs_ret
        /\ (pc \in {"loop", "trial", "insert"} /\ pc' = "returned")
           => \/ /\ pc = "insert" /\ last_insert' = "dependency"
                 /\ snfs_ret' = ext'.ret
                 /\ snfs_ret' > 1 /\ snfs_ret' < n /\ n % snfs_ret' = 0
              \/ /\ pc = "loop" /\ snfs_ret' = 0
                 /\ \/ k > window
                    \/ relation_count >= target_rel
                    \/ relation_count >= MAX_REL
      ]_vars

\* two dependencies gave no factor in this attempt, the later one was handed
\* to the extractor as well, and the loop is collecting again
C17_Witness ==
    /\ pc = "loop" /\ k <= window
    /\ relation_count - matrix_rows >= 2
    /\ last_insert = "dependency"
    /\ ext.called /\ ext.count = relation_count - 1
    /\ ~(ext.ret > 1 /\ ext.ret < n)


\* the factor base holds distinct primes and fits its array
FbWellFormed ==
    /\ fb_size <= MAX_FB
    /\ \A j \in 1 .. fb_size : IsPrime(primes[j])
    /\ \A j, l \in 1 .. fb_size : primes[j] = primes[l] => j = l

\* what one step inside snfs_factor does to the factor base
FbStep ==
    /\ pc # "main" =>
          /\ fb_size' >= fb_size
          /\ SubSeq(primes', 1, fb_size) = primes
    /\ (pc # "main" /\ fb_size' # fb_size) =>
          /\ pc = "trial" /\ i = fb_size /\ pc' = "insert"
          /\ value > 1 /\ value <= LP_BOUND /\ IsPrime(value)
          /\ primes' = Append(primes, value)
    /\ (pc = "trial" /\ pc' = "loop") =>
          /\ value # 1
          /\ UNCHANGED << primes, relations, relation_count, matVars >>

\* C18: the factor base holds no duplicate and only primes, a column keeps its
\* prime, fb_size never shrinks and never exceeds MAX_FB, it grows by one
\* column only through the large-prime rule (cofactor > 1, <= LP_BOUND, prime),
\* and a discarded candidate leaves factor base, relation store and matrix
\* unchanged.
C18_FactorBase == []FbWellFormed /\ [][FbStep]_vars

\* a large prime has just become a new column of a factor base that already
\* served for an earlier relation
C18_Witness ==
    /\ pc = "insert" /\ relation_count >= 1
    /\ fb_size = Len(generate_primes(fb_bound)) + 1
    /\ primes[fb_size] = value /\ a_exp[fb_size - 1] = 1


\* C19: the target relation count forces a dependency: the number of stored
\* pivots never reaches target_rel, so a loop that stops at relation_count =
\* target_rel has seen insert_row report a dependency.
C19_TargetForcesDependency ==
    pc \in {"loop", "factor_with_fb", "insert", "returned"} =>
        (relation_count >= target_rel => matrix_rows < relation_count)


\* base^exp mod md over the unbounded integers, one exact product at a time
RECURSIVE ExactPowMod(_, _, _)
ExactPowMod(base, exp, md) ==
    IF exp = 0 THEN 1 % md ELSE (ExactPowMod(base, exp - 1, md) * base) % md

\* C20: for every a, b and every modulus 1 <= mod < 2^w, with all u128
\* arithmetic wrapping modulo 2^w, mul_mod(a, b, mod) = (a * b) mod mod and
\* pow_mod(base, e, mod) = base^e mod mod over the unbounded integers.
C20_ExactModArith ==
    /\ pc = "mul_mod_returned" => p = (x * y) % n
    /\ pc = "pow_mod_returned" => p = ExactPowMod(x, y, n)

====
